---- MODULE Spec2Model ----
(***************************************************************************)
(* Model of backend/routes/aiTutorRoutes.js: the three Express handlers    *)
(* POST /chat, POST /verify-upi and POST /process-payment, each run as one *)
(* asynchronous task per request that suspends only at its await.          *)
(*                                                                         *)
(* JavaScript strings are sequences of one-character strings; the fixed    *)
(* text of a template literal is kept as one element of such a sequence.   *)
(***************************************************************************)
EXTENDS Integers, Sequences, FiniteSets, TLC

VARIABLES apiKey, now, ticks, pc, req, wake, upstream, calls, sent

vars == <<apiKey, now, ticks, pc, req, wake, upstream, calls, sent>>

\* ------------------------------------------------------------------ bounds
NumReqs == 2
MaxUpiLen == 4
MaxTicks == 2

\* --------------------------------------------------------- program constants
VerifyDelay == 600
PaymentDelay == 800
TxDigits == 6

\* ------------------------------------------------------- JavaScript values
JSV(t, s, n) == [t |-> t, s |-> s, n |-> n]
Undefined == JSV("undefined", <<>>, 0)
Null == JSV("null", <<>>, 0)
Str(s) == JSV("string", s, 0)
Num(n) == JSV("number", <<>>, n)
Bool(b) == JSV("boolean", <<>>, IF b THEN 1 ELSE 0)
\* an object or array parsed from JSON, named by a label
Obj(label) == JSV("object", <<label>>, 0)

\* ToBoolean, as used by `!x`, `x || y` and `x && y`
Truthy(v) ==
  CASE v.t = "string" -> v.s # <<>>
    [] v.t = "number" -> v.n # 0
    [] v.t = "boolean" -> v.n = 1
    [] v.t = "object" -> TRUE
    [] OTHER -> FALSE

\* a || b
Or(a, b) == IF Truthy(a) THEN a ELSE b

Digits == <<"0", "1", "2", "3", "4", "5", "6", "7", "8", "9">>

\* decimal digits of a non-negative integer, most significant first
RECURSIVE Dec(_)
Dec(n) == IF n < 10 THEN <<Digits[n + 1]>> ELSE Dec(n \div 10) \o <<Digits[(n % 10) + 1]>>

RECURSIVE PadStart(_, _)
PadStart(s, len) == IF Len(s) >= len THEN s ELSE PadStart(<<"0">> \o s, len)

\* ToString of a value inside a template literal
ToStr(v) ==
  CASE v.t = "string" -> v.s
    [] v.t = "number" -> Dec(v.n)
    [] v.t = "boolean" -> IF v.n = 1 THEN <<"t", "r", "u", "e">> ELSE <<"f", "a", "l", "s", "e">>
    [] v.t = "null" -> <<"n", "u", "l", "l">>
    [] v.t = "undefined" -> <<"undefined">>
    [] OTHER -> <<"[object Object]">>

\* String.prototype.slice(start) with one argument
Slice(s, start) ==
  LET from == IF start < 0
              THEN (IF Len(s) + start < 0 THEN 0 ELSE Len(s) + start)
              ELSE (IF start > Len(s) THEN Len(s) ELSE start)
  IN SubSeq(s, from + 1, Len(s))

\* String.prototype.charAt(i)
CharAt(s, i) == IF i >= 0 /\ i < Len(s) THEN <<s[i + 1]>> ELSE <<>>

UpperOf(c) ==
  CASE c = "j" -> "J"
    [] c = "o" -> "O"
    [] c = "h" -> "H"
    [] c = "n" -> "N"
    [] OTHER -> c

\* String.prototype.toUpperCase()
ToUpperCase(s) == [i \in 1..Len(s) |-> UpperOf(s[i])]

\* String.prototype.split(sep) for a one-character separator
RECURSIVE SplitFrom(_, _, _, _)
SplitFrom(s, sep, i, cur) ==
  IF i > Len(s) THEN <<cur>>
  ELSE IF s[i] = sep THEN <<cur>> \o SplitFrom(s, sep, i + 1, <<>>)
  ELSE SplitFrom(s, sep, i + 1, Append(cur, s[i]))

Split(s, sep) == SplitFrom(s, sep, 1, <<>>)

\* ------------------------------------------------------------------ clock
\* Date.now() is a count of milliseconds of about 13 decimal digits; it is
\* kept as two limbs, now = hi * 10^6 + lo with 0 <= lo < 10^6.
AddMs(t, ms) == [hi |-> t.hi + ((t.lo + ms) \div 1000000), lo |-> (t.lo + ms) % 1000000]

TimeGeq(a, b) == a.hi > b.hi \/ (a.hi = b.hi /\ a.lo >= b.lo)

\* Number.prototype.toString() of a timestamp
NumberToString(t) ==
  IF t.hi = 0 THEN Dec(t.lo) ELSE Dec(t.hi) \o PadStart(Dec(t.lo), 6)

\* the clock when the process starts serving; the second value is 300 ms
\* before the low limb wraps
StartTimes == {[hi |-> 1762000, lo |-> 41958], [hi |-> 1762000, lo |-> 999700]}

\* how far the clock moves between two observations, in milliseconds
ClockSteps == {400}

NoTime == [hi |-> 0, lo |-> 0]

\* --------------------------------------------------------- provider shapes
\* one element of `choices`: null, or an object with optional message.content
\* and optional text
NullChoice == [kind |-> "null", hasMessage |-> FALSE, content |-> Undefined, text |-> Undefined]
Choice(hasMessage, content, text) ==
  [kind |-> "object", hasMessage |-> hasMessage, content |-> content, text |-> text]

NoChoices == [kind |-> "undefined", items |-> <<>>]
Choices(items) == [kind |-> "array", items |-> items]

NoData == [kind |-> "undefined", choices |-> NoChoices]
Data(choices) == [kind |-> "object", choices |-> choices]

NullResponse == [kind |-> "null", choices |-> NoChoices, data |-> NoData]
Response(choices, data) == [kind |-> "object", choices |-> choices, data |-> data]

\* c?.message?.content
MessageContent(c) == IF c.kind = "object" /\ c.hasMessage THEN c.content ELSE Undefined
\* c?.text
ChoiceText(c) == IF c.kind = "object" THEN c.text ELSE Undefined

\* a variant that prefers the plain text to the message content
FirstChoiceSwapped(items) ==
  IF Len(items) = 0 THEN Undefined
  ELSE Or(ChoiceText(items[1]), MessageContent(items[1]))

\* lines 39 and 44: c0?.message?.content || c0?.text of the first choice
FirstChoice(items) ==
  IF Len(items) = 0 THEN Undefined
  ELSE Or(MessageContent(items[1]), ChoiceText(items[1]))

\* lines 36-48: the reply text taken from the provider's response
ExtractReply(response) ==
  LET r1 == IF response.kind = "object" /\ response.choices.kind = "array"
               /\ Len(response.choices.items) > 0
            THEN FirstChoice(response.choices.items)
            ELSE Null
      r2 == IF ~Truthy(r1) /\ response.kind = "object" /\ response.data.kind = "object"
            THEN (IF response.data.choices.kind = "array"
                  THEN FirstChoice(response.data.choices.items)
                  ELSE Undefined)
            ELSE r1
  IN IF ~Truthy(r2) THEN Str(<<"(no reply from AI)">>) ELSE r2

\* ------------------------------------------------------------- error shapes
\* response.data of a thrown error: undefined, or an object whose `error`
\* is undefined or an object with an optional message
NoErrData == [kind |-> "undefined", hasError |-> FALSE, message |-> Undefined]
ErrData(hasError, message) == [kind |-> "object", hasError |-> hasError, message |-> message]

\* the thrown value: null/undefined, or an object with optional message and
\* optional response
NullError == [kind |-> "null", message |-> Undefined, hasResponse |-> FALSE, data |-> NoErrData]
Error(message, hasResponse, data) ==
  [kind |-> "object", message |-> message, hasResponse |-> hasResponse, data |-> data]

\* JSON text of a string value (the alphabet has nothing to escape)
Quote(s) == <<"\"">> \o s \o <<"\"">>

\* JSON.stringify(error.response.data); undefined stays undefined
JSONStringify(d) ==
  IF d.kind = "undefined" THEN Undefined
  ELSE IF ~d.hasError THEN Str(<<"{", "}">>)
  ELSE IF d.message.t = "string"
       THEN Str(<<"{", "\"error\"", ":", "{", "\"message\"", ":">> \o Quote(d.message.s) \o <<"}", "}">>)
       ELSE Str(<<"{", "\"error\"", ":", "{", "}", "}">>)

\* error?.response?.data?.error?.message
ResponseErrorMessage(e) ==
  IF e.kind = "object" /\ e.hasResponse /\ e.data.kind = "object" /\ e.data.hasError
  THEN e.data.message ELSE Undefined

\* error?.message
ErrorMessage(e) == IF e.kind = "object" THEN e.message ELSE Undefined

\* error?.response && JSON.stringify(error.response.data)
ResponseDataJSON(e) ==
  IF e.kind = "object" /\ e.hasResponse THEN JSONStringify(e.data) ELSE Undefined

\* a variant that prefers the error's own message
ExtractErrMessageOwnFirst(e) ==
  Or(ErrorMessage(e),
     Or(ResponseErrorMessage(e),
        Or(ResponseDataJSON(e), Str(<<"Internal server error">>))))

\* lines 55-56: errMessage
ExtractErrMessage(e) ==
  Or(ResponseErrorMessage(e),
     Or(ErrorMessage(e),
        Or(ResponseDataJSON(e), Str(<<"Internal server error">>))))

\* ----------------------------------------------------------------- requests
Reqs == 1..NumReqs

Request(route, hasBody, message, upi, gateway, method, amount, details) ==
  [route |-> route, hasBody |-> hasBody, message |-> message, upi |-> upi,
   gateway |-> gateway, method |-> method, amount |-> amount, details |-> details]

NoRequest ==
  Request("none", FALSE, Undefined, Undefined, Undefined, Undefined, Undefined, Undefined)

\* a request that arrived without a parsed body
NoBody(route) ==
  Request(route, FALSE, Undefined, Undefined, Undefined, Undefined, Undefined, Undefined)

\* const { f } = req.body || {}
BodyField(q, f) == IF q.hasBody THEN q[f] ELSE Undefined

Messages == {Undefined, Null, Str(<<>>), Num(0), Str(<<"h", "i">>), Num(7)}

ChatRequests ==
  {NoBody("chat")} \cup
  {Request("chat", TRUE, m, Undefined, Undefined, Undefined, Undefined, Undefined) :
     m \in Messages}

UpiAlphabet == {"j", "@"}

RECURSIVE StringsOfLen(_)
StringsOfLen(n) ==
  IF n = 0 THEN {<<>>}
  ELSE {Append(s, c) : s \in StringsOfLen(n - 1), c \in UpiAlphabet}

UpiStrings == UNION {StringsOfLen(n) : n \in 0..MaxUpiLen}

JohnAtPaytm == <<"j", "o", "h", "n", "@", "p", "a", "y", "t", "m">>

Gateways == {Undefined, Null, Str(<<>>), Str(<<"g", "p", "a", "y">>)}

UpiValues ==
  {Undefined, Null, Num(0), Num(7), Bool(TRUE), Obj("array")} \cup
  {Str(s) : s \in UpiStrings \cup {JohnAtPaytm}}

UpiRequests ==
  {NoBody("verify-upi")} \cup
  {Request("verify-upi", TRUE, Undefined, u, Undefined, Undefined, Undefined, Undefined) :
     u \in UpiValues} \cup
  {Request("verify-upi", TRUE, Undefined, Str(s), g, Undefined, Undefined, Undefined) :
     s \in {JohnAtPaytm, <<"j", "@", "j">>}, g \in Gateways}

Methods == {Undefined, Str(<<>>), Str(<<"c", "a", "r", "d">>)}
Amounts == {Undefined, Null, Num(0), Str(<<>>), Num(500), Str(<<"1", "2">>)}
Details == {Undefined, Obj("details")}

PaymentRequests ==
  {NoBody("process-payment")} \cup
  {Request("process-payment", TRUE, Undefined, Undefined, Undefined, m, a, d) :
     m \in Methods, a \in Amounts, d \in Details}

Contents == {Undefined, Str(<<>>), Str(<<"c", "1">>)}
Texts == {Undefined, Str(<<"t", "1">>)}

TopChoices ==
  {NoChoices, Choices(<<>>), Choices(<<NullChoice>>)} \cup
  {Choices(<<Choice(TRUE, c, t)>>) : c \in Contents, t \in Texts} \cup
  {Choices(<<Choice(FALSE, Undefined, t)>>) : t \in Texts}

DataShapes ==
  {NoData, Data(NoChoices), Data(Choices(<<>>))} \cup
  {Data(Choices(<<Choice(TRUE, c, t)>>)) :
     c \in {Undefined, Str(<<"c", "2">>)}, t \in {Undefined, Str(<<"t", "2">>)}}

ProviderResponses ==
  {NullResponse} \cup {Response(c, d) : c \in TopChoices, d \in DataShapes}

ErrDatas ==
  {NoErrData, ErrData(FALSE, Undefined), ErrData(TRUE, Undefined),
   ErrData(TRUE, Str(<<>>)), ErrData(TRUE, Str(<<"q", "u", "o", "t", "a">>))}

ProviderErrors ==
  {NullError} \cup
  {Error(m, FALSE, NoErrData) : m \in {Undefined, Str(<<>>), Str(<<"b", "o", "o", "m">>)}} \cup
  {Error(m, TRUE, d) : m \in {Undefined, Str(<<>>), Str(<<"b", "o", "o", "m">>)}, d \in ErrDatas}

\* what the provider call of a request ended with
NoUpstream == [kind |-> "none", response |-> NullResponse, error |-> NullError]
Returned(response) == [kind |-> "returned", response |-> response, error |-> NullError]
Threw(error) == [kind |-> "threw", response |-> NullResponse, error |-> error]

\* --------------------------------------------------------------- responses
\* res.status(400).json({ error: true, message })
BadRequest(message) == [status |-> 400, body |-> [error |-> TRUE, message |-> message]]
\* res.json(body)
Ok(body) == [status |-> 200, body |-> body]
\* the framework's answer to a handler whose promise rejected
ServerError == [status |-> 500, body |-> [error |-> TRUE, message |-> "Internal Server Error"]]

\* a variant that rejects only an absent message
MessageUndefinedOnly(message) == message.t = "undefined"

\* line 12: !message
MessageMissing(message) == ~Truthy(message)

\* a variant that does not echo the message
DemoReplyNoEcho(message) ==
  Str(<<"Demo reply (OpenAI key not configured). You asked: \"">> \o <<"\"">>)

\* line 22: the reply when no key is configured
DemoReply(message) ==
  Str(<<"Demo reply (OpenAI key not configured). You asked: \"">> \o ToStr(message) \o <<"\"">>)

\* line 60: the reply when the provider call threw (the source's dash is
\* written "-" here)
ApologyReply(message) ==
  Str(<<"Sorry - the AI service is temporarily unavailable. Demo reply: you asked \"">>
      \o ToStr(message) \o <<"\".">>)

\* a variant that accepts more than two parts
UpiFormatFewerThanTwo(parts) ==
  IF Len(parts) < 2 THEN TRUE ELSE (parts[1] = <<>> \/ parts[2] = <<>>)

\* line 75: the split of a UPI id is not two non-empty parts
UpiFormatInvalid(parts) ==
  IF Len(parts) # 2 THEN TRUE ELSE (parts[1] = <<>> \/ parts[2] = <<>>)

\* a variant that upper-cases the whole name
DisplayNameAllUpper(name) == ToUpperCase(name)

\* line 84: name.charAt(0).toUpperCase() + name.slice(1)
DisplayName(name) == ToUpperCase(CharAt(name, 0)) \o Slice(name, 1)

\* line 86: gateway || null
GatewayOrNull(gateway) == Or(gateway, Null)

\* a variant that rejects only when both are missing
PaymentInvalidBoth(method, amount) == ~Truthy(method) /\ ~Truthy(amount)

\* line 92: !method || !amount
PaymentInvalid(method, amount) == ~Truthy(method) \/ ~Truthy(amount)

\* a variant that takes the timestamp modulo 10^6 as a number
TxIdUnpadded(t) == <<"TXN-">> \o Dec(t.lo)

\* line 98: `TXN-${Date.now().toString().slice(-6)}`
TxId(t) == <<"TXN-">> \o Slice(NumberToString(t), 0 - TxDigits)

Init ==
  /\ apiKey \in {Undefined, Str(<<"s", "k">>)}
  /\ now \in StartTimes
  /\ ticks = 0
  /\ pc = [r \in Reqs |-> "idle"]
  /\ req = [r \in Reqs |-> NoRequest]
  /\ wake = [r \in Reqs |-> NoTime]
  /\ upstream = [r \in Reqs |-> NoUpstream]
  /\ calls = [r \in Reqs |-> 0]
  /\ sent = [r \in Reqs |-> <<>>]

\* the handler of request r writes response x and returns
Respond(r, x) ==
  /\ sent' = [sent EXCEPT ![r] = Append(@, x)]
  /\ pc' = [pc EXCEPT ![r] = "done"]

\* lines 9-33: POST /chat up to its await
Chat(r) ==
  /\ pc[r] = "idle"
  /\ \E q \in ChatRequests :
       LET message == BodyField(q, "message") IN
       /\ req' = [req EXCEPT ![r] = q]
       /\ \/ /\ ~Truthy(message)
             /\ Respond(r, BadRequest("Message is required"))
             /\ UNCHANGED calls
          \/ /\ ~MessageMissing(message)
             /\ ~Truthy(apiKey)
             /\ Respond(r, Ok([reply |-> DemoReply(message)]))
             /\ UNCHANGED calls
          \/ /\ ~MessageMissing(message)
             /\ Truthy(apiKey)
             /\ calls' = [calls EXCEPT ![r] = @ + 1]
             /\ pc' = [pc EXCEPT ![r] = "chat_await"]
             /\ UNCHANGED sent
  /\ UNCHANGED <<apiKey, now, ticks, wake, upstream>>

\* lines 35-50: the provider call returned
ChatReturn(r) ==
  /\ pc[r] = "chat_await"
  /\ \E response \in ProviderResponses :
       /\ upstream' = [upstream EXCEPT ![r] = Returned(response)]
       /\ Respond(r, Ok([reply |-> ExtractReply(response)]))
  /\ UNCHANGED <<apiKey, now, ticks, req, wake, calls>>

\* lines 51-64: the provider call threw
ChatCatch(r) ==
  /\ pc[r] = "chat_await"
  /\ \E error \in ProviderErrors :
       LET message == BodyField(req[r], "message") IN
       /\ upstream' = [upstream EXCEPT ![r] = Threw(error)]
       /\ Respond(r, Ok([reply |-> ApologyReply(message),
                         _debug |-> [error |-> ExtractErrMessage(error)]]))
  /\ UNCHANGED <<apiKey, now, ticks, req, wake, calls>>

\* lines 68-80: POST /verify-upi up to its await.  A truthy `upi` that is
\* not a string has no split method: the call throws inside the async
\* handler, whose promise rejects with nothing having been written; the
\* framework then either leaves the request unanswered or answers 500.
VerifyUpi(r) ==
  /\ pc[r] = "idle"
  /\ \E q \in UpiRequests :
       LET upi == BodyField(q, "upi") IN
       /\ req' = [req EXCEPT ![r] = q]
       /\ \/ /\ ~Truthy(upi)
             /\ Respond(r, BadRequest("UPI ID is required"))
             /\ UNCHANGED wake
          \/ /\ Truthy(upi)
             /\ upi.t # "string"
             /\ pc' = [pc EXCEPT ![r] = "rejected"]
             /\ \/ UNCHANGED sent
                \/ sent' = [sent EXCEPT ![r] = Append(@, ServerError)]
             /\ UNCHANGED wake
          \/ /\ Truthy(upi)
             /\ upi.t = "string"
             /\ UpiFormatInvalid(Split(upi.s, "@"))
             /\ Respond(r, BadRequest("Invalid UPI ID format"))
             /\ UNCHANGED wake
          \/ /\ Truthy(upi)
             /\ upi.t = "string"
             /\ ~UpiFormatInvalid(Split(upi.s, "@"))
             /\ wake' = [wake EXCEPT ![r] = AddMs(now, VerifyDelay)]
             /\ pc' = [pc EXCEPT ![r] = "upi_delay"]
             /\ UNCHANGED sent
  /\ UNCHANGED <<apiKey, now, ticks, upstream, calls>>

\* lines 82-86: the 600 ms timer fired
VerifyUpiResume(r) ==
  /\ pc[r] = "upi_delay"
  /\ TimeGeq(now, wake[r])
  /\ LET parts == Split(BodyField(req[r], "upi").s, "@")
         name == parts[1]
     IN Respond(r, Ok([verified |-> TRUE,
                       name |-> Str(DisplayName(name)),
                       gateway |-> GatewayOrNull(BodyField(req[r], "gateway"))]))
  /\ UNCHANGED <<apiKey, now, ticks, req, wake, upstream, calls>>

\* lines 90-95: POST /process-payment up to its await
ProcessPayment(r) ==
  /\ pc[r] = "idle"
  /\ \E q \in PaymentRequests :
       /\ req' = [req EXCEPT ![r] = q]
       /\ \/ /\ PaymentInvalid(BodyField(q, "method"), BodyField(q, "amount"))
             /\ Respond(r, BadRequest("method and amount required"))
             /\ UNCHANGED wake
          \/ /\ ~PaymentInvalid(BodyField(q, "method"), BodyField(q, "amount"))
             /\ wake' = [wake EXCEPT ![r] = AddMs(now, PaymentDelay)]
             /\ pc' = [pc EXCEPT ![r] = "pay_delay"]
             /\ UNCHANGED sent
  /\ UNCHANGED <<apiKey, now, ticks, upstream, calls>>

\* lines 97-99: the 800 ms timer fired
ProcessPaymentResume(r) ==
  /\ pc[r] = "pay_delay"
  /\ TimeGeq(now, wake[r])
  /\ Respond(r, Ok([success |-> TRUE,
                    txId |-> Str(TxId(now)),
                    method |-> BodyField(req[r], "method"),
                    amount |-> BodyField(req[r], "amount"),
                    details |-> BodyField(req[r], "details")]))
  /\ UNCHANGED <<apiKey, now, ticks, req, wake, upstream, calls>>

\* the exchange is over (answered, or abandoned by the client after the
\* handler's promise rejected); its task is gone and another request can arrive
Close(r) ==
  /\ pc[r] \in {"done", "rejected"}
  /\ pc' = [pc EXCEPT ![r] = "idle"]
  /\ req' = [req EXCEPT ![r] = NoRequest]
  /\ wake' = [wake EXCEPT ![r] = NoTime]
  /\ upstream' = [upstream EXCEPT ![r] = NoUpstream]
  /\ calls' = [calls EXCEPT ![r] = 0]
  /\ sent' = [sent EXCEPT ![r] = <<>>]
  /\ UNCHANGED <<apiKey, now, ticks>>

\* time passes
Tick ==
  /\ ticks < MaxTicks
  /\ \E ms \in ClockSteps : now' = AddMs(now, ms)
  /\ ticks' = ticks + 1
  /\ UNCHANGED <<apiKey, pc, req, wake, upstream, calls, sent>>

Step(r) ==
  \/ Chat(r)
  \/ ChatReturn(r)
  \/ ChatCatch(r)
  \/ VerifyUpi(r)
  \/ VerifyUpiResume(r)
  \/ ProcessPayment(r)
  \/ ProcessPaymentResume(r)
  \/ Close(r)

Next == Tick \/ \E r \in Reqs : Step(r)

\* any number of requests up to NumReqs in flight at once
Spec == Init /\ [][Next]_vars

\* one request at a time
NextOne == Tick \/ Step(1)

SpecOne == Init /\ [][NextOne]_vars

\* ================================================================ properties
Route(r) == req[r].route

\* m occurs in s as a contiguous run
IsInfix(m, s) ==
  \E i \in 0..(Len(s) - Len(m)) : SubSeq(s, i + 1, i + Len(m)) = m

RECURSIVE FirstNonEmpty(_, _)
\* the first truthy element of a sequence of candidates, else the default
FirstNonEmpty(candidates, default) ==
  IF candidates = <<>> THEN default
  ELSE IF Truthy(Head(candidates)) THEN Head(candidates)
  ELSE FirstNonEmpty(Tail(candidates), default)

\* the positions of "@" in s
AtPositions(s) == {i \in 1..Len(s) : s[i] = "@"}

\* s is local@domain: exactly one "@", with something on both sides
ExactlyOneAt(s) ==
  /\ Cardinality(AtPositions(s)) = 1
  /\ \A i \in AtPositions(s) : i > 1 /\ i < Len(s)

RECURSIVE DigitsValue(_)
\* the number a sequence of decimal digits denotes
DigitsValue(d) ==
  IF d = <<>> THEN 0
  ELSE 10 * DigitsValue(SubSeq(d, 1, Len(d) - 1))
       + (CHOOSE k \in 0..9 : Digits[k + 1] = d[Len(d)])

IsDigit(c) == \E k \in 1..10 : Digits[k] = c

\* C1: every request gets exactly one response, with status 400 or 200, and
\* no handler ends in an unhandled failure
C1_EveryRequestAnswered ==
  \A r \in Reqs :
    /\ pc[r] # "rejected"
    /\ Len(sent[r]) <= 1
    /\ pc[r] = "done" => Len(sent[r]) = 1
    /\ \A i \in 1..Len(sent[r]) : sent[r][i].status \in {200, 400}

\* C2: with a key configured, when the provider call throws, the response is
\* 200 with an apology reply that embeds the message and a debug error that is
\* the first non-empty of response.data.error.message, the error's message,
\* the JSON of response.data, else "Internal server error"
C2_ProviderFailureSwallowed ==
  \A r \in Reqs :
    (pc[r] = "done" /\ upstream[r].kind = "threw") =>
      LET e == upstream[r].error
          x == sent[r][1]
      IN /\ Truthy(apiKey)
         /\ Len(sent[r]) = 1
         /\ x.status = 200
         /\ DOMAIN x.body = {"reply", "_debug"}
         /\ x.body.reply.t = "string"
         /\ Head(x.body.reply.s) =
              "Sorry - the AI service is temporarily unavailable. Demo reply: you asked \""
         /\ IsInfix(ToStr(req[r].message), Tail(x.body.reply.s))
         /\ x.body._debug.error =
              FirstNonEmpty(<<ResponseErrorMessage(e), ErrorMessage(e), ResponseDataJSON(e)>>,
                            Str(<<"Internal server error">>))

\* C2 witness: a thrown error with no message of its own and an empty
\* response.data.error.message was answered with the JSON of response.data
C2_Witness ==
  \E r \in Reqs :
    /\ pc[r] = "done"
    /\ upstream[r].kind = "threw"
    /\ upstream[r].error.hasResponse
    /\ upstream[r].error.data = ErrData(TRUE, Str(<<>>))
    /\ ~Truthy(upstream[r].error.message)
    /\ sent[r][1].body._debug.error =
         Str(<<"{", "\"error\"", ":", "{", "\"message\"", ":", "\"", "\"", "}", "}">>)

\* C3: with no key configured, a non-empty string message M is answered 200
\* with exactly { reply: 'Demo reply (OpenAI key not configured). You asked:
\* "M"' }, and the provider is never called
C3_DemoReplyEchoes ==
  \A r \in Reqs :
    ~Truthy(apiKey) =>
      /\ calls[r] = 0
      /\ pc[r] # "chat_await"
      /\ (Route(r) = "chat" /\ req[r].hasBody /\ req[r].message.t = "string"
          /\ req[r].message.s # <<>>) =>
           /\ pc[r] = "done"
           /\ sent[r] = <<[status |-> 200, body |-> [reply |->
                Str(<<"Demo reply (OpenAI key not configured). You asked: \"">>
                    \o req[r].message.s \o <<"\"">>)]]>>

\* C3 witness: "hi" was asked with no key configured and answered
C3_Witness ==
  \E r \in Reqs :
    /\ ~Truthy(apiKey)
    /\ Route(r) = "chat"
    /\ req[r].message = Str(<<"h", "i">>)
    /\ pc[r] = "done"
    /\ Len(sent[r]) = 1

\* C4: a chat request whose message is empty or missing, or that has no body,
\* is answered 400 { error: true, message: "Message is required" } with or
\* without a key, and the provider is not called
C4_MessageRequired ==
  \A r \in Reqs :
    (Route(r) = "chat"
     /\ (~req[r].hasBody \/ req[r].message = Undefined \/ req[r].message = Str(<<>>))) =>
      /\ pc[r] = "done"
      /\ sent[r] = <<[status |-> 400,
                      body |-> [error |-> TRUE, message |-> "Message is required"]]>>
      /\ calls[r] = 0

\* C4 witness: an empty message was rejected while a key is configured
C4_Witness ==
  \E r \in Reqs :
    /\ Truthy(apiKey)
    /\ Route(r) = "chat"
    /\ req[r].hasBody
    /\ req[r].message = Str(<<>>)
    /\ Len(sent[r]) = 1
    /\ sent[r][1].status = 400

\* C5: a upi string that is not exactly one "@" between two non-empty parts
\* is answered 400 with an { error: true, message } body and never verified
C5_MalformedUpiRejected ==
  \A r \in Reqs :
    (Route(r) = "verify-upi" /\ req[r].hasBody /\ req[r].upi.t = "string"
     /\ ~ExactlyOneAt(req[r].upi.s)) =>
      /\ pc[r] = "done"
      /\ Len(sent[r]) = 1
      /\ sent[r][1].status = 400
      /\ DOMAIN sent[r][1].body = {"error", "message"}
      /\ sent[r][1].body.error = TRUE
      /\ sent[r][1].body.message \in {"UPI ID is required", "Invalid UPI ID format"}

\* C5 witness: a upi with two "@" and non-empty first two parts was rejected
C5_Witness ==
  \E r \in Reqs :
    /\ Route(r) = "verify-upi"
    /\ req[r].upi = Str(<<"j", "@", "j", "@">>)
    /\ Len(sent[r]) = 1
    /\ sent[r][1].status = 400

\* C6: a valid upi local@domain is answered 200 with verified:true and name
\* equal to local with its first character upper-cased and the rest
\* unchanged, whatever the domain
C6_DisplayNameFromLocal ==
  \A r \in Reqs :
    (Route(r) = "verify-upi" /\ req[r].hasBody /\ req[r].upi.t = "string"
     /\ ExactlyOneAt(req[r].upi.s)) =>
      /\ pc[r] \in {"upi_delay", "done"}
      /\ pc[r] = "upi_delay" => sent[r] = <<>>
      /\ pc[r] = "done" =>
           LET s == req[r].upi.s
               at == CHOOSE i \in AtPositions(s) : TRUE
               local == SubSeq(s, 1, at - 1)
           IN /\ Len(sent[r]) = 1
              /\ sent[r][1].status = 200
              /\ sent[r][1].body.verified = TRUE
              /\ sent[r][1].body.name = Str(<<UpperOf(local[1])>> \o Tail(local))

\* C6 witness: "jj@j" was verified, so the rest of the local part is there
C6_Witness ==
  \E r \in Reqs :
    /\ Route(r) = "verify-upi"
    /\ req[r].upi = Str(<<"j", "j", "@", "j">>)
    /\ pc[r] = "done"
    /\ sent[r][1].body.name = Str(<<"J", "j">>)

\* C7: a payment request with method present and amount truthy is answered
\* 200 with success:true, a txId of "TXN-" followed by exactly 6 decimal
\* digits, the last six of the timestamp when the answer is written, and
\* with method, amount and details as in the request
C7_PaymentAnswer ==
  /\ [](\A r \in Reqs :
          (Route(r) = "process-payment" /\ req[r].hasBody
           /\ Truthy(req[r].method) /\ Truthy(req[r].amount)) =>
            /\ pc[r] \in {"pay_delay", "done"}
            /\ pc[r] = "pay_delay" => sent[r] = <<>>
            /\ pc[r] = "done" => (Len(sent[r]) = 1 /\ sent[r][1].status = 200))
  /\ [][\A r \in Reqs :
          (pc[r] = "pay_delay" /\ pc'[r] = "done") =>
            LET x == sent'[r][1]
                id == x.body.txId.s
            IN /\ Len(sent'[r]) = 1
               /\ x.status = 200
               /\ x.body.success = TRUE
               /\ x.body.txId.t = "string"
               /\ Len(id) = 7
               /\ id[1] = "TXN-"
               /\ \A i \in 2..7 : IsDigit(id[i])
               /\ DigitsValue(Tail(id)) = now.lo
               /\ x.body.method = req[r].method
               /\ x.body.amount = req[r].amount
               /\ x.body.details = req[r].details]_vars

\* C7 witness: a payment was answered when the last six digits of the
\* timestamp start with zeros
C7_Witness ==
  \E r \in Reqs :
    /\ Route(r) = "process-payment"
    /\ pc[r] = "done"
    /\ sent[r][1].status = 200
    /\ sent[r][1].body.txId = Str(<<"TXN-", "0", "0", "0", "5", "0", "0">>)
    /\ sent[r][1].body.details = Obj("details")

\* C8: a payment request whose method is missing or falsy, or whose amount is
\* missing, 0, "" or null, is answered 400 { error: true, message: "method
\* and amount required" } and never gets a txId
C8_PaymentFieldsRequired ==
  \A r \in Reqs :
    (Route(r) = "process-payment"
     /\ (\/ ~req[r].hasBody
         \/ req[r].method \in {Undefined, Null, Str(<<>>)}
         \/ req[r].amount \in {Undefined, Null, Num(0), Str(<<>>)})) =>
      /\ pc[r] = "done"
      /\ sent[r] = <<[status |-> 400,
                      body |-> [error |-> TRUE, message |-> "method and amount required"]]>>

\* C8 witness: a request with a method and amount 0 was rejected
C8_Witness ==
  \E r \in Reqs :
    /\ Route(r) = "process-payment"
    /\ Truthy(req[r].method)
    /\ req[r].amount = Num(0)
    /\ Len(sent[r]) = 1
    /\ sent[r][1].status = 400

\* C9: the gateway of a verify-upi answer is the request's gateway verbatim
\* whenever one is supplied, and null only when it is omitted
C9_GatewayEchoed ==
  \A r \in Reqs :
    (Route(r) = "verify-upi" /\ pc[r] = "done" /\ sent[r][1].status = 200) =>
      /\ req[r].gateway # Undefined => sent[r][1].body.gateway = req[r].gateway
      /\ req[r].gateway = Undefined => sent[r][1].body.gateway = Null

\* C10: when the provider call returns, the reply is the first non-empty of
\* choices[0].message.content, choices[0].text, data.choices[0].message.content
\* and data.choices[0].text, else "(no reply from AI)"; it is never empty
C10_ReplyPriority ==
  \A r \in Reqs :
    (pc[r] = "done" /\ upstream[r].kind = "returned") =>
      LET resp == upstream[r].response
          top == IF resp.choices.kind = "array" /\ Len(resp.choices.items) > 0
                 THEN resp.choices.items[1] ELSE NullChoice
          nested == IF resp.data.kind = "object" /\ resp.data.choices.kind = "array"
                       /\ Len(resp.data.choices.items) > 0
                    THEN resp.data.choices.items[1] ELSE NullChoice
          reply == sent[r][1].body.reply
      IN /\ Truthy(apiKey)
         /\ Len(sent[r]) = 1
         /\ sent[r][1].status = 200
         /\ DOMAIN sent[r][1].body = {"reply"}
         /\ reply = FirstNonEmpty(<<MessageContent(top), ChoiceText(top),
                                    MessageContent(nested), ChoiceText(nested)>>,
                                  Str(<<"(no reply from AI)">>))
         /\ Truthy(reply)

\* C10 witness: the first choice has both a message content and a text, a
\* nested data envelope is present too, and the content was the reply
C10_Witness ==
  \E r \in Reqs :
    /\ pc[r] = "done"
    /\ upstream[r].kind = "returned"
    /\ upstream[r].response =
         Response(Choices(<<Choice(TRUE, Str(<<"c", "1">>), Str(<<"t", "1">>))>>),
                  Data(Choices(<<Choice(TRUE, Str(<<"c", "2">>), Str(<<"t", "2">>))>>)))
    /\ sent[r][1].body.reply = Str(<<"c", "1">>)

====
